---- MODULE Spec2Model ----
(***************************************************************************)
(* Insurance-policy document pipeline: Acquisition (download_pdfs.py),     *)
(* Classifier (create_metadata.py) and Organizer (organize_pdfs.py).       *)
(*                                                                         *)
(* Python strings are modelled as sequences of characters; a character is  *)
(* a one-character TLA+ string ("U+2013" stands for the en dash of the     *)
(* fifth mock text, the only non-ASCII character of the sources).          *)
(***************************************************************************)
EXTENDS Integers, Sequences, FiniteSets, TLC

VARIABLES
    raw,              \* raw_documents/: the set of documents (file ids) present
    meta,             \* metadata/: file id -> NoRecord | Corrupt | record
    policies,         \* policies/: set of [path, doc], one entry per file path
    stage,            \* which batch script is running: "idle", "classifier", "organizer"
    todo,             \* the entries the running script's for-loop has still to visit
    file_count,       \* create_metadata.py's file_count
    organized_count,  \* organize_pdfs.py's organized_count
    skipped_count,    \* organize_pdfs.py's skipped_count
    report,           \* what the last loop iteration printed: [rec, msg]
    ops,              \* how many downloads, reviews and script runs have been started
    text,             \* the text handed to a detector (detector specifications)
    detected          \* the detector's result, NotRun before the call

vars == <<raw, meta, policies, stage, todo, file_count,
          organized_count, skipped_count, report, ops, text, detected>>

pipelineVars == <<raw, meta, policies, stage, todo, file_count,
                  organized_count, skipped_count, report, ops>>

-----------------------------------------------------------------------------
(* Bounds of the model *)

\* number of distinct source documents (URLs) the pipeline is run on
MaxFiles == 2
\* downloads, reviews and script runs explored in one behaviour
MaxOps == 8
\* fields one review corrects
MaxCorrections == 1
\* detector inputs place a word up to MaxShift characters before offset 2000
MaxShift == 4
\* detector inputs for detect_line concatenate up to MaxPhrases phrases
MaxPhrases == 2

-----------------------------------------------------------------------------
(* Python str operations *)

Min(a, b) == IF a < b THEN a ELSE b

LowerChars == <<"a", "b", "c", "d", "e", "f", "g", "h", "i", "j", "k", "l", "m", "n", "o", "p", "q", "r", "s", "t", "u", "v", "w", "x", "y", "z">>
UpperChars == <<"A", "B", "C", "D", "E", "F", "G", "H", "I", "J", "K", "L", "M", "N", "O", "P", "Q", "R", "S", "T", "U", "V", "W", "X", "Y", "Z">>
DigitChars == <<"0", "1", "2", "3", "4", "5", "6", "7", "8", "9">>

LowerSet == {LowerChars[i] : i \in 1..Len(LowerChars)}
UpperSet == {UpperChars[i] : i \in 1..Len(UpperChars)}
DigitSet == {DigitChars[i] : i \in 1..Len(DigitChars)}

UpperOf == [c \in LowerSet |-> UpperChars[CHOOSE i \in 1..Len(LowerChars) : LowerChars[i] = c]]
LowerOf == [c \in UpperSet |-> LowerChars[CHOOSE i \in 1..Len(UpperChars) : UpperChars[i] = c]]

\* str.upper() / str.lower(), character by character
char_upper(c) == IF c \in LowerSet THEN UpperOf[c] ELSE c
char_lower(c) == IF c \in UpperSet THEN LowerOf[c] ELSE c
str_upper(s) == [i \in 1..Len(s) |-> char_upper(s[i])]
str_lower(s) == [i \in 1..Len(s) |-> char_lower(s[i])]

\* needle in hay
Contains(needle, hay) ==
    \E i \in 0..(Len(hay) - Len(needle)) :
        \A j \in 1..Len(needle) : hay[i + j] = needle[j]

\* s[:n]
Prefix(s, n) == SubSeq(s, 1, Min(n, Len(s)))

\* s.startswith(p)
StartsWith(s, p) == Len(s) >= Len(p) /\ SubSeq(s, 1, Len(p)) = p

Whitespace == {" ", "\n", "\t"}

\* s.strip(): from the first to the last character that is not whitespace
str_strip(s) ==
    IF \A i \in 1..Len(s) : s[i] \in Whitespace THEN <<>>
    ELSE LET lo == CHOOSE i \in 1..Len(s) :
                      s[i] \notin Whitespace /\ \A j \in 1..(i - 1) : s[j] \in Whitespace
             hi == CHOOSE i \in 1..Len(s) :
                      s[i] \notin Whitespace /\ \A j \in (i + 1)..Len(s) : s[j] \in Whitespace
         IN  SubSeq(s, lo, hi)

\* s.split('\n'): line k lies between the (k-1)-th and the k-th newline
split_lines(s) ==
    LET nl == {i \in 1..Len(s) : s[i] = "\n"}
        pos(k) == CHOOSE p \in nl : Cardinality({q \in nl : q < p}) = k - 1
        first(k) == IF k = 1 THEN 1 ELSE pos(k - 1) + 1
        last(k) == IF k = Cardinality(nl) + 1 THEN Len(s) ELSE pos(k) - 1
    IN  [k \in 1..(Cardinality(nl) + 1) |-> SubSeq(s, first(k), last(k))]

\* any(word in t for word in words)
AnyIn(words, t) == \E w \in 1..Len(words) : Contains(words[w], t)

Unknown == <<"U", "n", "k", "n", "o", "w", "n">>

-----------------------------------------------------------------------------
(* create_metadata.py / organize_pdfs.py: clean_text and build_filename *)

\* re.sub(r'[^A-Za-z0-9_-]', '', value) keeps exactly these characters
IsSafeChar(c) == c \in LowerSet \cup UpperSet \cup DigitSet \cup {"_", "-"}

\* value.replace(' ', '_')
ReplaceSpaces(s) == [i \in 1..Len(s) |-> IF s[i] = " " THEN "_" ELSE s[i]]

clean_text(value) ==
    IF value = <<>> THEN Unknown
    ELSE LET cleaned == SelectSeq(ReplaceSpaces(str_strip(value)), IsSafeChar)
         IN  IF cleaned = <<>> THEN Unknown ELSE cleaned

\* build_filename with the product segment left uncleaned
build_filename_raw_product(m) ==
    clean_text(m.country) \o <<"_">> \o clean_text(m.insurer) \o <<"_">>
        \o clean_text(m.insurance_line) \o <<"_">> \o m.product_name
        \o <<".", "p", "d", "f">>

build_filename(m) ==
    clean_text(m.country) \o <<"_">> \o clean_text(m.insurer) \o <<"_">>
        \o clean_text(m.insurance_line) \o <<"_">> \o clean_text(m.product_name)
        \o <<".", "p", "d", "f">>

-----------------------------------------------------------------------------
(* create_metadata.py: the detectors *)

KNOWN_INSURERS == <<
    <<"A", "M", "I">>,
    <<"A", "A", " ", "I", "n", "s", "u", "r", "a", "n", "c", "e">>,
    <<"S", "t", "a", "t", "e", " ", "I", "n", "s", "u", "r", "a", "n", "c", "e">>,
    <<"T", "o", "w", "e", "r">>,
    <<"A", "I", "A">>,
    <<"S", "o", "u", "t", "h", "e", "r", "n", " ", "C", "r", "o", "s", "s">>,
    <<"V", "e", "r", "o">>,
    <<"F", "M", "G">>,
    <<"N", "Z", "I">>,
    <<"N", "R", "M", "A">>,
    <<"S", "u", "n", "c", "o", "r", "p">>,
    <<"A", "X", "A">>,
    <<"A", "v", "i", "v", "a">>,
    <<"D", "i", "r", "e", "c", "t", " ", "L", "i", "n", "e">>,
    <<"B", "u", "p", "a">>,
    <<"Q", "B", "E">>,
    <<"A", "r", "g", "i", "s">>,
    <<"B", "I", "A">>,
    <<"C", "a", "s", "t", "l", "e">>,
    <<"A", "l", "l", "i", "a", "n", "z">>,
    <<"I", "A", "G">> >>

\* text[:2000]
InsurerWindow == 2000

\* the for-loop of detect_insurer from entry i on
RECURSIVE insurer_scan(_, _)
insurer_scan(i, first_section) ==
    IF i > Len(KNOWN_INSURERS) THEN Unknown
    ELSE IF Contains(str_upper(KNOWN_INSURERS[i]), first_section)
         THEN KNOWN_INSURERS[i]
         ELSE insurer_scan(i + 1, first_section)

\* detect_insurer scanning the whole text
detect_insurer_whole_text(t) ==
    LET first_section == str_upper(t) IN insurer_scan(1, first_section)

detect_insurer(t) ==
    LET first_section == str_upper(Prefix(t, InsurerWindow))
    IN  insurer_scan(1, first_section)

\* the if-chain of detect_line: label and keyword list, in source order
LINE_RULES == <<
    [label |-> <<"P", "r", "o", "f", "e", "s", "s", "i", "o", "n", "a", "l", " ", "I", "n", "d", "e", "m", "n", "i", "t", "y">>,
     words |-> << <<"p", "r", "o", "f", "e", "s", "s", "i", "o", "n", "a", "l", " ", "i", "n", "d", "e", "m", "n", "i", "t", "y">>, <<"p", "i", " ", "i", "n", "s", "u", "r", "a", "n", "c", "e">>,
                  <<"p", "r", "o", "f", "e", "s", "s", "i", "o", "n", "a", "l", " ", "l", "i", "a", "b", "i", "l", "i", "t", "y">>, <<"a", "c", "c", "o", "u", "n", "t", "a", "n", "t", "s", " ", "l", "i", "a", "b", "i", "l", "i", "t", "y">> >>],
    [label |-> <<"F", "a", "r", "m">>,
     words |-> << <<"f", "a", "r", "m", " ", "i", "n", "s", "u", "r", "a", "n", "c", "e">>, <<"a", "g", "r", "i", "c", "u", "l", "t", "u", "r", "a", "l">>, <<"f", "a", "r", "m", "i", "n", "g">>,
                  <<"r", "u", "r", "a", "l", " ", "p", "r", "o", "p", "e", "r", "t", "y">> >>],
    [label |-> <<"L", "a", "n", "d", "l", "o", "r", "d">>,
     words |-> << <<"l", "a", "n", "d", "l", "o", "r", "d">>, <<"r", "e", "n", "t", "a", "l", " ", "p", "r", "o", "p", "e", "r", "t", "y">>, <<"i", "n", "v", "e", "s", "t", "m", "e", "n", "t", " ", "p", "r", "o", "p", "e", "r", "t", "y">>,
                  <<"r", "e", "s", "i", "d", "e", "n", "t", "i", "a", "l", " ", "l", "a", "n", "d", "l", "o", "r", "d">> >>],
    [label |-> <<"C", "o", "n", "s", "t", "r", "u", "c", "t", "i", "o", "n">>,
     words |-> << <<"c", "o", "n", "s", "t", "r", "u", "c", "t", "i", "o", "n">>, <<"b", "u", "i", "l", "d", "e", "r", "s", " ", "i", "n", "d", "e", "m", "n", "i", "t", "y">>, <<"c", "o", "n", "t", "r", "a", "c", "t", " ", "w", "o", "r", "k", "s">>,
                  <<"b", "u", "i", "l", "d", "i", "n", "g", " ", "p", "r", "o", "j", "e", "c", "t">> >>],
    [label |-> <<"M", "o", "t", "o", "r">>,
     words |-> << <<"c", "a", "r", " ", "i", "n", "s", "u", "r", "a", "n", "c", "e">>, <<"m", "o", "t", "o", "r">>, <<"v", "e", "h", "i", "c", "l", "e", " ", "i", "n", "s", "u", "r", "a", "n", "c", "e">>,
                  <<"a", "u", "t", "o", " ", "i", "n", "s", "u", "r", "a", "n", "c", "e">> >>],
    [label |-> <<"L", "i", "f", "e">>,
     words |-> << <<"l", "i", "f", "e", " ", "i", "n", "s", "u", "r", "a", "n", "c", "e">>, <<"l", "i", "f", "e", " ", "c", "o", "v", "e", "r">>, <<"l", "i", "f", "e", " ", "p", "r", "o", "t", "e", "c", "t", "i", "o", "n">> >>],
    [label |-> <<"H", "e", "a", "l", "t", "h">>,
     words |-> << <<"h", "e", "a", "l", "t", "h", " ", "i", "n", "s", "u", "r", "a", "n", "c", "e">>, <<"m", "e", "d", "i", "c", "a", "l", " ", "i", "n", "s", "u", "r", "a", "n", "c", "e">>, <<"h", "e", "a", "l", "t", "h", " ", "c", "o", "v", "e", "r">> >>],
    [label |-> <<"H", "o", "m", "e", " ", "&", " ", "C", "o", "n", "t", "e", "n", "t", "s">>,
     words |-> << <<"h", "o", "m", "e", " ", "i", "n", "s", "u", "r", "a", "n", "c", "e">>, <<"c", "o", "n", "t", "e", "n", "t", "s", " ", "i", "n", "s", "u", "r", "a", "n", "c", "e">>, <<"h", "o", "u", "s", "e", " ", "i", "n", "s", "u", "r", "a", "n", "c", "e">>,
                  <<"h", "o", "m", "e", " ", "&", " ", "c", "o", "n", "t", "e", "n", "t", "s">> >>],
    [label |-> <<"T", "r", "a", "v", "e", "l">>,
     words |-> << <<"t", "r", "a", "v", "e", "l", " ", "i", "n", "s", "u", "r", "a", "n", "c", "e">>, <<"t", "r", "i", "p", " ", "i", "n", "s", "u", "r", "a", "n", "c", "e">>, <<"t", "r", "a", "v", "e", "l", " ", "c", "o", "v", "e", "r">> >> ] >>

\* first rule of the chain, from rule i on, with a keyword in t
RECURSIVE rule_scan(_, _, _)
rule_scan(rules, i, t) ==
    IF i > Len(rules) THEN Unknown
    ELSE IF AnyIn(rules[i].words, t) THEN rules[i].label
         ELSE rule_scan(rules, i + 1, t)

\* detect_line with the Motor test moved to the head of the chain
detect_line_motor_first(t) ==
    LET reordered == <<LINE_RULES[5]>> \o SubSeq(LINE_RULES, 1, 4)
                         \o SubSeq(LINE_RULES, 6, Len(LINE_RULES))
    IN  rule_scan(reordered, 1, str_lower(t))

detect_line(t) == rule_scan(LINE_RULES, 1, str_lower(t))

COUNTRY_RULES == <<
    [label |-> <<"N", "e", "w", " ", "Z", "e", "a", "l", "a", "n", "d">>,
     words |-> << <<"n", "e", "w", " ", "z", "e", "a", "l", "a", "n", "d">>, <<"n", "z", " ">>, <<" ", "n", "z">>, <<"a", "u", "c", "k", "l", "a", "n", "d">>, <<"w", "e", "l", "l", "i", "n", "g", "t", "o", "n">> >>],
    [label |-> <<"A", "u", "s", "t", "r", "a", "l", "i", "a">>,
     words |-> << <<"a", "u", "s", "t", "r", "a", "l", "i", "a">>, <<" ", "a", "u", " ">>, <<"s", "y", "d", "n", "e", "y">>, <<"m", "e", "l", "b", "o", "u", "r", "n", "e">> >>],
    [label |-> <<"U", "n", "i", "t", "e", "d", " ", "K", "i", "n", "g", "d", "o", "m">>,
     words |-> << <<"u", "n", "i", "t", "e", "d", " ", "k", "i", "n", "g", "d", "o", "m">>, <<"u", "k", " ">>, <<" ", "u", "k">>, <<"e", "n", "g", "l", "a", "n", "d">>, <<"s", "c", "o", "t", "l", "a", "n", "d">> >>] >>

detect_country(t) == rule_scan(COUNTRY_RULES, 1, str_lower(t))

\* text.split('\n')[:30]
ProductLines == 30
\* 10 < len(trimmed) < 100
TitleMinLen == 10
TitleMaxLen == 100

PRODUCT_KEYWORDS == << <<"p", "o", "l", "i", "c", "y">>, <<"i", "n", "s", "u", "r", "a", "n", "c", "e">>, <<"w", "o", "r", "d", "i", "n", "g">>, <<"c", "o", "v", "e", "r">> >>

IsTitleLine(trimmed) ==
    /\ TitleMinLen < Len(trimmed)
    /\ Len(trimmed) < TitleMaxLen
    /\ ~StartsWith(trimmed, <<"w", "w", "w">>)
    /\ AnyIn(PRODUCT_KEYWORDS, str_lower(trimmed))

RECURSIVE title_scan(_, _)
title_scan(lines, i) ==
    IF i > Len(lines) THEN <<"G", "e", "n", "e", "r", "a", "l", " ", "P", "o", "l", "i", "c", "y">>
    ELSE LET trimmed == str_strip(lines[i])
         IN  IF IsTitleLine(trimmed) THEN trimmed ELSE title_scan(lines, i + 1)

detect_product_name(t) == title_scan(Prefix(split_lines(t), ProductLines), 1)

-----------------------------------------------------------------------------
(* The state before any script has run: empty folders, nothing printed *)

\* no result yet; not a string any detector returns
NotRun == <<"not run">>
NoReport == [rec |-> 0, msg |-> "none"]

\* a metadata file that does not exist, and one json.load cannot read
NoRecord == [kind |-> "none"]
Corrupt == [kind |-> "corrupt"]

PipelineInit ==
    /\ raw = {}
    /\ meta = [f \in 1..MaxFiles |-> NoRecord]
    /\ policies = {}
    /\ stage = "idle"
    /\ todo = {}
    /\ file_count = 0
    /\ organized_count = 0
    /\ skipped_count = 0
    /\ report = NoReport
    /\ ops = 0

-----------------------------------------------------------------------------
(* Detector specifications: detect_insurer and detect_line applied to texts *)

Pad(n) == [i \in 1..n |-> "."]

RECURSIVE Join(_)
Join(ws) ==
    IF ws = <<>> THEN <<>>
    ELSE IF Len(ws) = 1 THEN ws[1]
    ELSE ws[1] \o <<" ">> \o Join(Tail(ws))

\* words placed in the texts given to detect_insurer
InsurerWords == { <<"i", "a", "g">>, <<"A", "M", "I">>, <<"V", "e", "r", "o">>, <<"S", "o", "u", "t", "h", "e", "r", "n", " ", "C", "r", "o", "s", "s">>, <<"a", "i", "a", "g">>,
                  <<"A", "m", "i", "t", "y">>, <<"b", "r", "o", "k", "e", "r">> }

\* the first word starts at offset 0 or within MaxShift characters before offset 2000
PadLens == {0} \cup {InsurerWindow - d : d \in 0..MaxShift}

InsurerTexts ==
    {Pad(n) \o w1 \o <<" ">> \o w2 : n \in PadLens, w1 \in InsurerWords,
                                      w2 \in InsurerWords \cup {<<>>}}

InitInsurer ==
    /\ PipelineInit
    /\ text \in InsurerTexts
    /\ detected = NotRun

RunDetectInsurer ==
    /\ detected = NotRun
    /\ detected' = detect_insurer(text)
    /\ UNCHANGED <<pipelineVars, text>>

NextInsurer == RunDetectInsurer

SpecInsurer == InitInsurer /\ [][NextInsurer]_vars

\* phrases placed in the texts given to detect_line
LinePhrases == { <<"P", "r", "o", "f", "e", "s", "s", "i", "o", "n", "a", "l", " ", "I", "n", "d", "e", "m", "n", "i", "t", "y">>, <<"M", "O", "T", "O", "R">>, <<"c", "a", "r", " ", "i", "n", "s", "u", "r", "a", "n", "c", "e">>,
                 <<"F", "a", "r", "m", "i", "n", "g">>, <<"l", "a", "n", "d", "l", "o", "r", "d">>, <<"L", "i", "f", "e", " ", "C", "o", "v", "e", "r">>, <<"H", "o", "m", "e", " ", "&", " ", "C", "o", "n", "t", "e", "n", "t", "s">>,
                 <<"T", "r", "a", "v", "e", "l", " ", "I", "n", "s", "u", "r", "a", "n", "c", "e">>, <<"C", "O", "N", "S", "T", "R", "U", "C", "T", "I", "O", "N">>, <<"h", "e", "a", "l", "t", "h", " ", "c", "o", "v", "e", "r">>,
                 <<"P", "I", " ", "I", "n", "s", "u", "r", "a", "n", "c", "e">>, <<"p", "e", "t", " ", "c", "a", "r", "e">> }

LineTexts ==
    {Join(ws) : ws \in UNION {[1..n -> LinePhrases] : n \in 0..MaxPhrases}}

InitLine ==
    /\ PipelineInit
    /\ text \in LineTexts
    /\ detected = NotRun

RunDetectLine ==
    /\ detected = NotRun
    /\ detected' = detect_line(text)
    /\ UNCHANGED <<pipelineVars, text>>

NextLine == RunDetectLine

SpecLine == InitLine /\ [][NextLine]_vars

\* the name occurs in t, compared without regard to case, entirely within
\* the first `window` characters
OccursWithin(name, t, window) ==
    \E p \in 0..(Min(window, Len(t)) - Len(name)) :
        \A j \in 1..Len(name) : char_lower(t[p + j]) = char_lower(name[j])

InsurersInWindow(t) ==
    {i \in 1..Len(KNOWN_INSURERS) : OccursWithin(KNOWN_INSURERS[i], t, InsurerWindow)}

\* C8: detect_insurer returns the known insurer earliest in list order among
\* those occurring, case-insensitively, within the first 2000 characters of the
\* text, and "Unknown" when none occurs there (a name only at or after offset
\* 2000, or straddling it, does not count).
C8_InsurerFirstInListWithinWindow ==
    detected # NotRun =>
        LET hits == InsurersInWindow(text)
        IN  IF hits = {} THEN detected = Unknown
            ELSE detected = KNOWN_INSURERS[CHOOSE i \in hits : \A j \in hits : i <= j]

\* a text in which a known insurer straddles offset 2000 and none lies before
\* it has been classified "Unknown"
C8_Witness ==
    /\ detected = Unknown
    /\ Len(text) > InsurerWindow
    /\ \E i \in 1..Len(KNOWN_INSURERS) :
          /\ OccursWithin(KNOWN_INSURERS[i], text, Len(text))
          /\ ~OccursWithin(KNOWN_INSURERS[i], text, InsurerWindow)
          /\ OccursWithin(KNOWN_INSURERS[i], text, InsurerWindow + Len(KNOWN_INSURERS[i]) - 1)

\* categories one of whose keywords occurs in t, compared without regard to case
LinesMatching(t) ==
    {c \in 1..Len(LINE_RULES) :
        \E w \in 1..Len(LINE_RULES[c].words) :
            OccursWithin(LINE_RULES[c].words[w], t, Len(t))}

\* the categories in the order detect_line tests them
CategoryOrder == <<
    <<"P", "r", "o", "f", "e", "s", "s", "i", "o", "n", "a", "l", " ", "I", "n", "d", "e", "m", "n", "i", "t", "y">>, <<"F", "a", "r", "m">>, <<"L", "a", "n", "d", "l", "o", "r", "d">>, <<"C", "o", "n", "s", "t", "r", "u", "c", "t", "i", "o", "n">>, <<"M", "o", "t", "o", "r">>,
    <<"L", "i", "f", "e">>, <<"H", "e", "a", "l", "t", "h">>, <<"H", "o", "m", "e", " ", "&", " ", "C", "o", "n", "t", "e", "n", "t", "s">>, <<"T", "r", "a", "v", "e", "l">> >>

\* C9: detect_line returns the first category, in the order Professional
\* Indemnity, Farm, Landlord, Construction, Motor, Life, Health, Home & Contents,
\* Travel, one of whose keywords occurs in the lower-cased text, and "Unknown"
\* when none does; a text with a Professional Indemnity keyword and a Motor
\* keyword is "Professional Indemnity".
C9_LineFirstMatchInOrder ==
    detected # NotRun =>
        LET hits == LinesMatching(text)
        IN  /\ IF hits = {} THEN detected = Unknown
               ELSE detected = CategoryOrder[CHOOSE c \in hits : \A d \in hits : c <= d]
            /\ ({1, 5} \subseteq hits => detected = <<"P", "r", "o", "f", "e", "s", "s", "i", "o", "n", "a", "l", " ", "I", "n", "d", "e", "m", "n", "i", "t", "y">>)

\* a text whose Motor keyword comes before its Professional Indemnity keyword
\* has been classified "Professional Indemnity"
C9_Witness ==
    /\ detected = <<"P", "r", "o", "f", "e", "s", "s", "i", "o", "n", "a", "l", " ", "I", "n", "d", "e", "m", "n", "i", "t", "y">>
    /\ StartsWith(text, <<"M", "O", "T", "O", "R">>)
    /\ {1, 5} \subseteq LinesMatching(text)

-----------------------------------------------------------------------------
(* The documents, and the Classifier's mock text extraction *)

Files == 1..MaxFiles

\* download_pdfs.py: the file name taken from the URL, with ".pdf" appended.
\* Odd documents carry a country cue in their name, even ones do not.
FileName(f) ==
    (IF f % 2 = 1 THEN <<"n", "z">> ELSE <<"d", "o", "c">>) \o <<DigitChars[(f % 10) + 1]>> \o <<".", "p", "d", "f">>

\* mock_texts, each without the file name that ends it
MOCK_TEXTS == <<
    <<"P", "r", "o", "f", "e", "s", "s", "i", "o", "n", "a", "l", " ", "I", "n", "d", "e", "m", "n", "i", "t", "y", " ", "I", "n", "s", "u", "r", "a", "n", "c", "e", " ", "P", "o", "l", "i", "c", "y", "\n", " ", " ", " ", " ", " ", " ", " ", " ", " ", " ", " ", " ", "B", "I", "A", " ", "A", "c", "c", "o", "u", "n", "t", "a", "n", "t", "s", "\n", " ", " ", " ", " ", " ", " ", " ", " ", " ", " ", " ", " ", "T", "h", "i", "s", " ", "p", "o", "l", "i", "c", "y", " ", "p", "r", "o", "v", "i", "d", "e", "s", " ", "p", "r", "o", "f", "e", "s", "s", "i", "o", "n", "a", "l", " ", "l", "i", "a", "b", "i", "l", "i", "t", "y", " ", "c", "o", "v", "e", "r", " ", "f", "o", "r", " ", "a", "c", "c", "o", "u", "n", "t", "a", "n", "t", "s", ".", "\n", " ", " ", " ", " ", " ", " ", " ", " ", " ", " ", " ", " ", "P", "r", "o", "f", "e", "s", "s", "i", "o", "n", "a", "l", " ", "i", "n", "d", "e", "m", "n", "i", "t", "y", " ", "i", "n", "s", "u", "r", "a", "n", "c", "e", " ", "w", "i", "t", "h", " ", "a", "c", "c", "o", "u", "n", "t", "a", "n", "t", " ", "s", "p", "e", "c", "i", "f", "i", "c", " ", "c", "o", "v", "e", "r", "s", ".", "\n", " ", " ", " ", " ", " ", " ", " ", " ", " ", " ", " ", " ">>,
    <<"F", "a", "r", "m", " ", "E", "x", "t", "r", "a", " ", "I", "n", "s", "u", "r", "a", "n", "c", "e", "\n", " ", " ", " ", " ", " ", " ", " ", " ", " ", " ", " ", " ", "A", "r", "g", "i", "s", " ", "I", "n", "s", "u", "r", "a", "n", "c", "e", "\n", " ", " ", " ", " ", " ", " ", " ", " ", " ", " ", " ", " ", "A", "g", "r", "i", "c", "u", "l", "t", "u", "r", "a", "l", " ", "a", "n", "d", " ", "f", "a", "r", "m", "i", "n", "g", " ", "i", "n", "s", "u", "r", "a", "n", "c", "e", " ", "p", "o", "l", "i", "c", "y", ".", "\n", " ", " ", " ", " ", " ", " ", " ", " ", " ", " ", " ", " ", "C", "o", "v", "e", "r", "s", " ", "f", "a", "r", "m", " ", "b", "u", "i", "l", "d", "i", "n", "g", "s", ",", " ", "r", "u", "r", "a", "l", " ", "p", "r", "o", "p", "e", "r", "t", "y", ",", " ", "a", "n", "d", " ", "a", "g", "r", "i", "c", "u", "l", "t", "u", "r", "a", "l", " ", "e", "q", "u", "i", "p", "m", "e", "n", "t", ".", "\n", " ", " ", " ", " ", " ", " ", " ", " ", " ", " ", " ", " ">>,
    <<"R", "e", "s", "i", "d", "e", "n", "t", "i", "a", "l", " ", "L", "a", "n", "d", "l", "o", "r", "d", " ", "P", "o", "l", "i", "c", "y", "\n", " ", " ", " ", " ", " ", " ", " ", " ", " ", " ", " ", " ", "C", "a", "s", "t", "l", "e", " ", "I", "n", "s", "u", "r", "a", "n", "c", "e", "\n", " ", " ", " ", " ", " ", " ", " ", " ", " ", " ", " ", " ", "L", "a", "n", "d", "l", "o", "r", "d", " ", "a", "n", "d", " ", "r", "e", "n", "t", "a", "l", " ", "p", "r", "o", "p", "e", "r", "t", "y", " ", "i", "n", "s", "u", "r", "a", "n", "c", "e", ".", "\n", " ", " ", " ", " ", " ", " ", " ", " ", " ", " ", " ", " ", "I", "n", "v", "e", "s", "t", "m", "e", "n", "t", " ", "p", "r", "o", "p", "e", "r", "t", "y", " ", "l", "a", "n", "d", "l", "o", "r", "d", " ", "c", "o", "v", "e", "r", " ", "f", "o", "r", " ", "r", "e", "s", "i", "d", "e", "n", "t", "i", "a", "l", " ", "p", "r", "o", "p", "e", "r", "t", "i", "e", "s", ".", "\n", " ", " ", " ", " ", " ", " ", " ", " ", " ", " ", " ", " ">>,
    <<"C", "o", "n", "s", "t", "r", "u", "c", "t", "i", "o", "n", " ", "I", "n", "d", "e", "m", "n", "i", "t", "y", " ", "C", "o", "v", "e", "r", "\n", " ", " ", " ", " ", " ", " ", " ", " ", " ", " ", " ", " ", "A", "M", "I", " ", "B", "u", "i", "l", "d", "i", "n", "g", "\n", " ", " ", " ", " ", " ", " ", " ", " ", " ", " ", " ", " ", "C", "o", "n", "t", "r", "a", "c", "t", " ", "w", "o", "r", "k", "s", " ", "a", "n", "d", " ", "b", "u", "i", "l", "d", "e", "r", "s", " ", "i", "n", "d", "e", "m", "n", "i", "t", "y", ".", "\n", " ", " ", " ", " ", " ", " ", " ", " ", " ", " ", " ", " ", "C", "o", "n", "s", "t", "r", "u", "c", "t", "i", "o", "n", " ", "a", "n", "d", " ", "b", "u", "i", "l", "d", "i", "n", "g", " ", "p", "r", "o", "j", "e", "c", "t", " ", "i", "n", "s", "u", "r", "a", "n", "c", "e", " ", "p", "r", "o", "t", "e", "c", "t", "i", "o", "n", ".", "\n", " ", " ", " ", " ", " ", " ", " ", " ", " ", " ", " ", " ">>,
    <<"C", "a", "r", " ", "I", "n", "s", "u", "r", "a", "n", "c", "e", " ", "U+2013", " ", "P", "o", "l", "i", "c", "y", " ", "W", "o", "r", "d", "i", "n", "g", "\n", " ", " ", " ", " ", " ", " ", " ", " ", " ", " ", " ", " ", "A", "M", "I", " ", "L", "i", "m", "i", "t", "e", "d", "\n", " ", " ", " ", " ", " ", " ", " ", " ", " ", " ", " ", " ", "M", "o", "t", "o", "r", " ", "v", "e", "h", "i", "c", "l", "e", " ", "i", "n", "s", "u", "r", "a", "n", "c", "e", " ", "p", "o", "l", "i", "c", "y", " ", "f", "o", "r", " ", "N", "e", "w", " ", "Z", "e", "a", "l", "a", "n", "d", ".", "\n", " ", " ", " ", " ", " ", " ", " ", " ", " ", " ", " ", " ", "C", "a", "r", " ", "i", "n", "s", "u", "r", "a", "n", "c", "e", " ", "w", "i", "t", "h", " ", "c", "o", "m", "p", "r", "e", "h", "e", "n", "s", "i", "v", "e", " ", "v", "e", "h", "i", "c", "l", "e", " ", "c", "o", "v", "e", "r", " ", "o", "p", "t", "i", "o", "n", "s", ".", "\n", " ", " ", " ", " ", " ", " ", " ", " ", " ", " ", " ", " ">> >>

\* mock_texts[file_count % len(mock_texts)]
mock_text(count, filename) == MOCK_TEXTS[(count % Len(MOCK_TEXTS)) + 1] \o filename

\* the metadata record the Classifier builds for a file. source_url,
\* download_date and created_at are left out: they are the same for every
\* record of a run and no script reads them.
new_record(count, f) ==
    LET t == mock_text(count, FileName(f))
        country == detect_country(t)
        insurer == detect_insurer(t)
        line == detect_line(t)
        product == detect_product_name(t)
    IN  [original_filename |-> FileName(f),
         generated_filename |-> build_filename([country |-> country, insurer |-> insurer,
                                    insurance_line |-> line, product_name |-> product]),
         country |-> country,
         insurer |-> insurer,
         insurance_line |-> line,
         product_name |-> product,
         document_type |-> IF Contains(<<"W", "o", "r", "d", "i", "n", "g">>, product)
                           THEN "Policy Wording" ELSE "Policy Document",
         confidence |-> IF country # Unknown /\ insurer # Unknown /\ line # Unknown
                        THEN "High" ELSE "Medium",
         status |-> "needs_review",
         organized_date |-> "unset"]

\* new_record for every rotation index and file, computed once
RecordTable == [c \in 0..(Len(MOCK_TEXTS) - 1), f \in Files |-> new_record(c, f)]

IsRecord(m) == "status" \in DOMAIN m

-----------------------------------------------------------------------------
(* download_pdfs.py *)

\* one iteration of the download loop; ok: the request and the write succeed
Download(f, ok) ==
    /\ ops < MaxOps
    /\ ops' = ops + 1
    /\ stage = "idle"
    /\ raw' = IF f \notin raw /\ ok THEN raw \cup {f} ELSE raw
    /\ report' = NoReport
    /\ UNCHANGED <<meta, policies, stage, todo, file_count,
                   organized_count, skipped_count, text, detected>>

-----------------------------------------------------------------------------
(* create_metadata.py *)

ClassifierStart ==
    /\ ops < MaxOps
    /\ ops' = ops + 1
    /\ stage = "idle"
    /\ stage' = "classifier"
    /\ todo' = raw
    /\ file_count' = 0
    /\ report' = NoReport
    /\ UNCHANGED <<raw, meta, policies, organized_count, skipped_count,
                   text, detected>>

\* what json.dump over the metadata file leaves there
classifier_write(old, new) == new

\* one iteration of the loop over raw_documents. The write is taken to
\* succeed: a failing one ends the script with the exception.
ClassifyStep(f) ==
    /\ UNCHANGED ops
    /\ stage = "classifier"
    /\ f \in todo
    /\ file_count' = file_count + 1
    /\ meta' = [meta EXCEPT ![f] =
                  classifier_write(@, RecordTable[file_count' % Len(MOCK_TEXTS), f])]
    /\ todo' = todo \ {f}
    /\ report' = NoReport
    /\ UNCHANGED <<raw, policies, stage, organized_count, skipped_count, text, detected>>

ClassifierEnd ==
    /\ UNCHANGED ops
    /\ stage = "classifier"
    /\ todo = {}
    /\ stage' = "idle"
    /\ file_count' = 0
    /\ report' = NoReport
    /\ UNCHANGED <<raw, meta, policies, todo, organized_count,
                   skipped_count, text, detected>>

-----------------------------------------------------------------------------
(* The review step: an actor outside the repository *)

ClassificationFields == {"country", "insurer", "insurance_line", "product_name"}

\* the values a reviewer may write into a field
ReviewValues ==
    [country        |-> {<<"N", "e", "w", " ", "Z", "e", "a", "l", "a", "n", "d">>},
     insurer        |-> {Unknown},
     insurance_line |-> {Unknown},
     product_name   |-> {Unknown}]

\* a correction: a partial function from fields to values
Corrections ==
    UNION {UNION {[flds -> UNION {ReviewValues[x] : x \in flds}] : flds \in {s \in SUBSET ClassificationFields : Cardinality(s) = n}}
           : n \in 0..MaxCorrections}

ValidCorrections ==
    {c \in Corrections : \A x \in DOMAIN c : c[x] \in ReviewValues[x]}

Review(k, c) ==
    /\ ops < MaxOps
    /\ ops' = ops + 1
    /\ stage = "idle"
    /\ IsRecord(meta[k])
    /\ meta[k].status = "needs_review"
    /\ meta' = [meta EXCEPT ![k] =
                  [x \in DOMAIN @ |->
                      IF x \in DOMAIN c THEN c[x]
                      ELSE IF x = "status" THEN "classified" ELSE @[x]]]
    /\ report' = NoReport
    /\ UNCHANGED <<raw, policies, stage, todo, file_count, organized_count,
                   skipped_count, text, detected>>

-----------------------------------------------------------------------------
(* organize_pdfs.py *)

required_fields == <<"country", "insurer", "insurance_line", "product_name">>

\* the required-fields check with product_name left out of the list
has_unknown_first_three(m) ==
    \E i \in 1..3 : m[required_fields[i]] = Unknown

has_unknown(m) ==
    \E i \in 1..Len(required_fields) : m[required_fields[i]] = Unknown

\* the status check letting everything but needs_review through
status_gate_not_needs_review(m) == m.status # "needs_review"

\* status == "classified"
status_gate(m) == m.status = "classified"

folder_path(m) ==
    <<clean_text(m.country), clean_text(m.insurer),
      clean_text(m.insurance_line), clean_text(m.product_name)>>

dst_filepath(m) == Append(folder_path(m), build_filename(m))

\* shutil.move onto dst: a file already at dst is replaced
move_to(pol, dst, doc) ==
    {e \in pol : e.path # dst} \cup {[path |-> dst, doc |-> doc]}

\* the metadata update leaving generated_filename as the Classifier wrote it
organized_record_stale_name(m) ==
    [m EXCEPT !.status = "organized", !.organized_date = "set"]

\* the metadata update after the move
organized_record(m) ==
    [m EXCEPT !.generated_filename = build_filename(m),
              !.status = "organized",
              !.organized_date = "set"]

\* the not-found branch writing a status of its own
not_found_record_marks_missing(m) == [m EXCEPT !.status = "missing"]

\* the record as the not-found branch leaves it
not_found_record(m) == m

OrganizerStart ==
    /\ ops < MaxOps
    /\ ops' = ops + 1
    /\ stage = "idle"
    /\ stage' = "organizer"
    /\ todo' = {k \in Files : meta[k] # NoRecord}
    /\ organized_count' = 0
    /\ skipped_count' = 0
    /\ report' = NoReport
    /\ UNCHANGED <<raw, meta, policies, file_count, text, detected>>

\* what the operating system does to the record's makedirs, move and write.
\* raw_documents and policies lie in one working directory, so shutil.move is
\* a rename: when it fails nothing has moved.
OrganizerIO == {"ok", "mkdir_error", "move_error", "write_error",
                "write_error_truncated"}

\* a record skipped before anything is touched
Skip(k, msg, counted) ==
    /\ report' = [rec |-> k, msg |-> msg]
    /\ skipped_count' = IF counted THEN skipped_count + 1 ELSE skipped_count
    /\ UNCHANGED <<raw, meta, policies, organized_count>>

\* the body of the loop for an admitted record
OrganizeAdmitted(k, io) ==
    LET m == meta[k]
        dst == dst_filepath(m)
    IN  IF io = "mkdir_error"
        THEN Skip(k, "mkdir_error", TRUE)
        ELSE
            IF k \notin raw
               THEN /\ io = "ok"
                    /\ meta' = [meta EXCEPT ![k] = not_found_record(m)]
                    /\ report' = [rec |-> k, msg |-> "not_found"]
                    /\ skipped_count' = skipped_count + 1
                    /\ UNCHANGED <<raw, policies, organized_count>>
               ELSE CASE io = "ok" ->
                         /\ raw' = raw \ {k}
                         /\ policies' = move_to(policies, dst, k)
                         /\ organized_count' = organized_count + 1
                         /\ meta' = [meta EXCEPT ![k] = organized_record(m)]
                         /\ report' = [rec |-> k, msg |-> "organized"]
                         /\ UNCHANGED skipped_count
                      [] io = "move_error" ->
                         /\ report' = [rec |-> k, msg |-> "organize_error"]
                         /\ skipped_count' = skipped_count + 1
                         /\ UNCHANGED <<raw, meta, policies, organized_count>>
                      [] io \in {"write_error", "write_error_truncated"} ->
                         /\ raw' = raw \ {k}
                         /\ policies' = move_to(policies, dst, k)
                         /\ organized_count' = organized_count + 1
                         /\ skipped_count' = skipped_count + 1
                         /\ meta' = [meta EXCEPT ![k] =
                                        IF io = "write_error" THEN m ELSE Corrupt]
                         /\ report' = [rec |-> k, msg |-> "organize_error"]

\* one iteration of the loop over the metadata folder
OrganizeStep(k, io) ==
    /\ UNCHANGED ops
    /\ stage = "organizer"
    /\ k \in todo
    /\ todo' = todo \ {k}
    /\ IF meta[k] = Corrupt
       THEN io = "ok" /\ Skip(k, "read_error", FALSE)
       ELSE IF meta[k].original_filename = <<>>
       THEN io = "ok" /\ Skip(k, "missing_original_filename", TRUE)
       ELSE IF ~status_gate(meta[k])
       THEN io = "ok" /\ Skip(k, "skipped_status", TRUE)
       ELSE IF has_unknown(meta[k])
       THEN io = "ok" /\ Skip(k, "skipped_unknown", TRUE)
       ELSE OrganizeAdmitted(k, io)
    /\ UNCHANGED <<stage, file_count, text, detected>>

\* the summary after the loop
OrganizerEnd ==
    /\ UNCHANGED ops
    /\ stage = "organizer"
    /\ todo = {}
    /\ stage' = "idle"
    /\ organized_count' = 0
    /\ skipped_count' = 0
    /\ report' = NoReport
    /\ UNCHANGED <<raw, meta, policies, todo, file_count, text, detected>>

-----------------------------------------------------------------------------
(* The pipeline *)

Init ==
    /\ PipelineInit
    /\ text = <<>>
    /\ detected = NotRun

Next ==
    \/ \E f \in Files, ok \in BOOLEAN : Download(f, ok)
    \/ ClassifierStart
    \/ \E f \in Files : ClassifyStep(f)
    \/ ClassifierEnd
    \/ \E k \in Files, c \in ValidCorrections : Review(k, c)
    \/ OrganizerStart
    \/ \E k \in Files, io \in OrganizerIO : OrganizeStep(k, io)
    \/ OrganizerEnd

Spec == Init /\ [][Next]_vars

-----------------------------------------------------------------------------
(* Properties of the pipeline *)

\* the Organizer's loop visits record k in this step
OrganizerVisits(k) == stage = "organizer" /\ k \in todo /\ k \notin todo'

ClassificationOf(m) == <<m.country, m.insurer, m.insurance_line, m.product_name>>

HasUnknownField(m) == \E i \in 1..4 : ClassificationOf(m)[i] = Unknown

\* a readable record in status "classified" with all four fields resolved
Admitted(m) ==
    /\ IsRecord(m)
    /\ m.original_filename # <<>>
    /\ m.status = "classified"
    /\ ~HasUnknownField(m)

CleanedFields(m) == [i \in 1..4 |-> clean_text(ClassificationOf(m)[i])]

\* "{country}_{insurer}_{line}_{product}.pdf" over the cleaned fields
ExpectedFilename(m) ==
    LET c == CleanedFields(m)
    IN  c[1] \o <<"_">> \o c[2] \o <<"_">> \o c[3] \o <<"_">> \o c[4] \o <<".", "p", "d", "f">>

\* policies/<country>/<insurer>/<insurance_line>/<product_name>/<generated_filename>
ExpectedPath(m) == CleanedFields(m) \o <<ExpectedFilename(m)>>

\* C1: a record with any of country, insurer, insurance_line, product_name equal
\* to "Unknown" is left as it is by every step of an Organizer run: the
\* persisted record (status included) is unchanged, its source file stays in
\* raw_documents and no file of it appears under policies/.
C1_UnknownFieldBlocksOrganize ==
    [][\A k \in Files :
          (stage = "organizer" /\ IsRecord(meta[k]) /\ HasUnknownField(meta[k])) =>
              /\ meta'[k] = meta[k]
              /\ (k \in raw => k \in raw')
              /\ {e \in policies' : e.doc = k} \subseteq policies]_vars

\* the Organizer has just skipped a classified record whose only unresolved
\* field is product_name, with its source file present
C1_Witness ==
    /\ report.msg = "skipped_unknown"
    /\ meta[report.rec].status = "classified"
    /\ meta[report.rec].product_name = Unknown
    /\ meta[report.rec].country # Unknown
    /\ meta[report.rec].insurer # Unknown
    /\ meta[report.rec].insurance_line # Unknown
    /\ report.rec \in raw

\* C2: when the Organizer visits a record whose status is not "classified",
\* the metadata, raw_documents and policies/ are all unchanged; and no step of an
\* Organizer run changes such a record or removes its source file.
C2_NonClassifiedUntouched ==
    [][\A k \in Files :
          (stage = "organizer" /\ IsRecord(meta[k]) /\ meta[k].status # "classified") =>
              /\ meta'[k] = meta[k]
              /\ (k \in raw => k \in raw')
              /\ OrganizerVisits(k) =>
                    (meta' = meta /\ raw' = raw /\ policies' = policies)]_vars

\* the Organizer has just skipped an already organized record whose source
\* file is back in raw_documents
C2_Witness ==
    /\ report.msg = "skipped_status"
    /\ meta[report.rec].status = "organized"
    /\ report.rec \in raw
    /\ \E e \in policies : e.doc = report.rec

StatusRank(m) ==
    CASE m.status = "needs_review" -> 1
      [] m.status = "classified" -> 2
      [] m.status = "organized" -> 3
      [] OTHER -> 0

\* C3: the persisted status of a record only moves forward along
\* needs_review -> classified -> organized: no step writes an earlier status
\* over a later one.
C3_StatusNeverRegresses ==
    [][\A k \in Files :
          (IsRecord(meta[k]) /\ IsRecord(meta'[k])) =>
              StatusRank(meta'[k]) >= StatusRank(meta[k])]_vars

\* C4: when the Organizer visits an admitted record whose source file is not
\* in raw_documents, the persisted record is unchanged with status
\* "classified", the record is counted as skipped and not as organized, nothing
\* is moved, and the loop goes on to the remaining records.
C4_MissingSourceLeavesRecord ==
    [][\A k \in Files :
          (OrganizerVisits(k) /\ Admitted(meta[k]) /\ k \notin raw) =>
              /\ meta'[k] = meta[k]
              /\ meta'[k].status = "classified"
              /\ skipped_count' = skipped_count + 1
              /\ organized_count' = organized_count
              /\ raw' = raw
              /\ policies' = policies
              /\ stage' = "organizer"
              /\ todo' = todo \ {k}]_vars

\* the Organizer has just reported the source file of an admitted record as
\* not found, with another record still to visit
C4_Witness ==
    /\ report.msg = "not_found"
    /\ Admitted(meta[report.rec])
    /\ report.rec \notin raw
    /\ skipped_count >= 1
    /\ stage = "organizer"
    /\ todo # {}

\* C5: after an I/O failure during the move or the metadata write the record
\* is not advanced to "organized" and is still retryable: it is readable, in
\* status "classified" with resolved fields, and its source file is in
\* raw_documents, which is what a later run needs to organize it.
C5_FailureLeavesRecordRetryable ==
    report.msg = "organize_error" =>
        /\ Admitted(meta[report.rec])
        /\ report.rec \in raw

IOFailureReports == {"mkdir_error", "organize_error"}

\* C6: when the Organizer visits an admitted record whose source file is
\* present and no I/O operation fails, then afterwards the status is
\* "organized", generated_filename is "{country}_{insurer}_{line}_{product}.pdf"
\* over the cleaned fields, organized_date is set, the classification is as it
\* was, the document is at
\* policies/<country>/<insurer>/<insurance_line>/<product_name>/<generated_filename>
\* and no longer in raw_documents; and a status becomes "organized" only in a
\* step that moves the source file to that place.
C6_AdmittedRecordOrganized ==
    [][\A k \in Files :
          /\ (OrganizerVisits(k) /\ Admitted(meta[k]) /\ k \in raw
                /\ report'.msg \notin IOFailureReports) =>
                /\ IsRecord(meta'[k])
                /\ meta'[k].status = "organized"
                /\ meta'[k].generated_filename = ExpectedFilename(meta[k])
                /\ meta'[k].organized_date = "set"
                /\ ClassificationOf(meta'[k]) = ClassificationOf(meta[k])
                /\ [path |-> ExpectedPath(meta[k]), doc |-> k] \in policies'
                /\ k \notin raw'
                /\ organized_count' = organized_count + 1
          /\ (/\ IsRecord(meta[k]) /\ IsRecord(meta'[k])
              /\ meta[k].status # "organized" /\ meta'[k].status = "organized") =>
                /\ k \in raw
                /\ k \notin raw'
                /\ [path |-> ExpectedPath(meta'[k]), doc |-> k] \in policies']_vars

\* the Organizer has just organized a record: the document is under policies/
\* at the expected path and gone from raw_documents
C6_Witness ==
    /\ report.msg = "organized"
    /\ meta[report.rec].status = "organized"
    /\ meta[report.rec].organized_date = "set"
    /\ meta[report.rec].generated_filename = ExpectedFilename(meta[report.rec])
    /\ [path |-> ExpectedPath(meta[report.rec]), doc |-> report.rec] \in policies
    /\ report.rec \notin raw

\* C7: in every state of every persisted record, generated_filename is the
\* filename built from the record's current four classification fields.
C7_FilenameAlwaysDerivable ==
    \A k \in Files :
        IsRecord(meta[k]) => meta[k].generated_filename = ExpectedFilename(meta[k])

\* C7 as amended: generated_filename is the filename built from the record's
\* current classification fields whenever the record's status is "needs_review"
\* or "organized" (between the review and a successful organize it is the name
\* the Classifier wrote).
C7_FilenameDerivableOutsideClassified ==
    \A k \in Files :
        (IsRecord(meta[k]) /\ meta[k].status \in {"needs_review", "organized"}) =>
            meta[k].generated_filename = ExpectedFilename(meta[k])

\* an organized record whose generated_filename is none of the names the
\* Classifier can write for it: a field was corrected in review and the name
\* recomputed by the Organizer
C7_Witness ==
    \E k \in Files :
        /\ IsRecord(meta[k])
        /\ meta[k].status = "organized"
        /\ meta[k].generated_filename = ExpectedFilename(meta[k])
        /\ \A c \in 0..(Len(MOCK_TEXTS) - 1) :
              meta[k].generated_filename # RecordTable[c, k].generated_filename

\* C10: an Organizer run loses no document: when the Organizer visits a record,
\* every file under policies/ that holds another record's document is still
\* there afterwards, and the documents in raw_documents and under policies/
\* are as many as before.
C10_OrganizerLosesNoDocument ==
    [][\A k \in Files :
          OrganizerVisits(k) =>
              /\ \A e \in policies : e.doc # k => e \in policies'
              /\ (\A e \in policies : e.doc # k) =>
                    Cardinality(raw') + Cardinality(policies')
                        = Cardinality(raw) + Cardinality(policies)]_vars

====
